---------------------------- MODULE Spec2Model ----------------------------
(***************************************************************************)
(* The Streamlit application of src/main.py as a state machine.            *)
(*                                                                         *)
(* One action is one run of the script main() triggered by one user        *)
(* interaction (a form submit, a button click, a page render).  The state  *)
(* is st.session_state (user, page), the database behind db (the users     *)
(* and predictions tables), the upload directory, the remedy table loaded  *)
(* at start-up, and what the last run rendered (last).                     *)
(*                                                                         *)
(* db_module and utils are imported by main.py but are not part of the     *)
(* sources at hand: their operations are modelled from the contracts of    *)
(* the specification (sections 4.1, 4.2, 4.5, 4.6, 7) and from the way     *)
(* main.py uses their results.  Every call into them either succeeds or    *)
(* raises; which one happens is an input of the action (fault).            *)
(***************************************************************************)
EXTENDS Integers, Sequences, FiniteSets, TLC

VARIABLES
    user,           \* st.session_state.user: None, or the id of the logged-in row
    page,           \* st.session_state.page
    users,          \* db: the users table, row i has id i
    predictions,    \* db: the predictions table, in order of creation
    uploads,        \* the paths save_uploaded_file has written
    remedies_data,  \* the table loaded from remedies.json
    last,           \* what the last run of the script did and rendered
    classified,     \* number of Predict runs in which model.predict returned
    save_calls,     \* number of calls of db.save_prediction
    save_failed     \* number of those calls that raised

vars == <<user, page, users, predictions, uploads, remedies_data, last,
          classified, save_calls, save_failed>>

-----------------------------------------------------------------------------
(* Bounds of the model *)

\* cap on the number of completed classifications (and so of records)
MaxPredictions == 2

\* classifier scores are the fractions 0/MaxScore .. MaxScore/MaxScore
MaxScore == 2

-----------------------------------------------------------------------------
(* Constants of the program and the input alphabets *)

None == 0

class_names == <<"Mild", "Moderate", "Severe", "Proliferative DR">>

NumClasses == Len(class_names)

ClassSet == {class_names[i] : i \in 1..NumClasses}

NoRemedy == "No remedy available"

Usernames == {"alice", "bob"}

Passwords == {"p1", "p2"}

Emails == {"e1", "e2"}

FullNames == {"n1"}

Files == {"a.png"}

\* every output the classifier can produce: one score per class, each in [0,1]
Vectors == [1..NumClasses -> 0..MaxScore]

\* the output in which the classifier is certain of class k
Certain(k) == [i \in 1..NumClasses |-> IF i = k THEN MaxScore ELSE 0]

\* the outputs in which the classifier is certain of one class
OneHot == {Certain(k) : k \in 1..NumClasses}

\* the outputs the whole application is run with: certain of the first class,
\* certain of the last
SampleOutputs == {Certain(1), Certain(NumClasses)}

\* labels a remedies.json may use as keys: the classes and one that is none
RemedyLabels == ClassSet \cup {"Unknown"}

Texts == {"advice1", "advice2"}


-----------------------------------------------------------------------------
(* Helpers *)

\* the path save_uploaded_file returns for an upload
PathOf(uploaded_file) == <<"uploads", uploaded_file>>

\* the largest score of a vector
MaxOf(prediction) ==
    CHOOSE m \in 0..MaxScore :
        /\ \E i \in DOMAIN prediction : prediction[i] = m
        /\ \A i \in DOMAIN prediction : prediction[i] <= m

\* argmax with np.argmin in its place: the first index of the smallest score
argmax_Smallest(prediction) ==
    CHOOSE i \in DOMAIN prediction :
        /\ \A j \in DOMAIN prediction : prediction[i] <= prediction[j]
        /\ \A j \in DOMAIN prediction : j < i => prediction[j] > prediction[i]

\* np.argmax over the (1, NumClasses) batch: the first index of the largest
\* score (indices are 1-based here, as class_names is)
argmax(prediction) ==
    CHOOSE i \in DOMAIN prediction :
        /\ prediction[i] = MaxOf(prediction)
        /\ \A j \in DOMAIN prediction : j < i => prediction[j] < prediction[i]

\* predicted_class = class_names[predicted_class_index]
PredictedClass(prediction) == class_names[argmax(prediction)]

\* confidence = float(prediction[0][predicted_class_index])
Confidence(prediction) == prediction[argmax(prediction)]

\* RemedyLookup with get(predicted_class, '') in its place
RemedyLookup_EmptyDefault(table, label) ==
    IF label \in DOMAIN table THEN table[label] ELSE ""

\* remedies_data.get(predicted_class, 'No remedy available')
RemedyLookup(table, label) ==
    IF label \in DOMAIN table THEN table[label] ELSE NoRemedy

\* every table remedies.json can hold over the labels of the model
RemedyTables ==
    UNION {[keys -> Texts] : keys \in SUBSET RemedyLabels}

\* the table the whole application is run with: an advice for every class
\* but the last
LoadedTables ==
    {t \in RemedyTables :
        /\ DOMAIN t = ClassSet \ {class_names[NumClasses]}
        /\ \A k \in DOMAIN t : t[k] = "advice1"}

-----------------------------------------------------------------------------
(* The database behind db, from the contracts of the specification *)

UserRow(username, email, password, full_name) ==
    [username |-> username, email |-> email,
     password |-> password, full_name |-> full_name]

UsernameTaken(username) ==
    \E i \in DOMAIN users : users[i].username = username

\* db.authenticate_user: the row with this username and password, or None
authenticate_user(username, password) ==
    IF \E i \in DOMAIN users :
           users[i].username = username /\ users[i].password = password
    THEN CHOOSE i \in DOMAIN users :
           users[i].username = username /\ users[i].password = password
    ELSE None

\* db.create_user: a new row with the next id
create_user(username, email, password, full_name) ==
    Append(users, UserRow(username, email, password, full_name))

\* db.update_user_profile
update_user_profile(user_id, full_name, email) ==
    [users EXCEPT ![user_id].full_name = full_name, ![user_id].email = email]

PredictionRow(user_id, image_path, prediction_class, confidence) ==
    [user_id |-> user_id, image_path |-> image_path,
     prediction_class |-> prediction_class, confidence |-> confidence,
     created_at |-> Len(predictions) + 1]

\* db.save_prediction: one new row at the end of the table
save_prediction(user_id, image_path, prediction_class, confidence) ==
    Append(predictions,
           PredictionRow(user_id, image_path, prediction_class, confidence))

HasUserId(row, user_id) == row.user_id = user_id

\* db.get_user_predictions: the rows of this user, in order of creation
get_user_predictions(user_id) ==
    SelectSeq(predictions, LAMBDA row : HasUserId(row, user_id))

-----------------------------------------------------------------------------
(* What a run of the script rendered *)

Uncaught == "uncaught exception"

Rendered(op, msg, error, shown, remedy, chart) ==
    [op |-> op, msg |-> msg, error |-> error,
     shown |-> shown, remedy |-> remedy, chart |-> chart]

\* a run that shows one message and nothing else
Message(op, msg, error) == Rendered(op, msg, error, <<>>, "", <<>>)

SessionUnchanged == UNCHANGED <<user, page>>

DbUnchanged == UNCHANGED <<users, predictions>>

CountsUnchanged == UNCHANGED <<classified, save_calls, save_failed>>

-----------------------------------------------------------------------------
(* The state after the module-level code of main.py has run *)

InitWith(tables) ==
    /\ user = None
    /\ page = "login"
    /\ users = <<>>
    /\ predictions = <<>>
    /\ uploads = {}
    /\ remedies_data \in tables
    /\ last = Message("start", "", "")
    /\ classified = 0
    /\ save_calls = 0
    /\ save_failed = 0

Init == InitWith(LoadedTables)

-----------------------------------------------------------------------------
(* login_form: the Login form is submitted.  auth_page renders it only while *)
(* the session user is None.                                                 *)

LoginFaults == {"none", "db.authenticate_user"}

\* login_form without the assignment of line 49
login_form_StaysOnPage(username, password, fault) ==
    /\ user = None
    /\ IF fault = "db.authenticate_user"
       THEN /\ last' = Message("login", Uncaught, "PersistenceError")
            /\ SessionUnchanged
       ELSE IF authenticate_user(username, password) # None
       THEN /\ user' = authenticate_user(username, password)
            /\ page' = page
            /\ last' = Message("login", "Login successful!", "")
       ELSE /\ last' = Message("login", "Invalid username or password",
                               "InvalidCredentials")
            /\ SessionUnchanged
    /\ DbUnchanged
    /\ CountsUnchanged
    /\ UNCHANGED <<uploads, remedies_data>>

login_form(username, password, fault) ==
    /\ user = None
    /\ IF fault = "db.authenticate_user"
       THEN \* the call is not inside a try: the exception leaves login_form
            /\ last' = Message("login", Uncaught, "PersistenceError")
            /\ SessionUnchanged
       ELSE IF authenticate_user(username, password) # None
       THEN /\ user' = authenticate_user(username, password)
            /\ page' = "home"
            /\ last' = Message("login", "Login successful!", "")
       ELSE /\ last' = Message("login", "Invalid username or password",
                               "InvalidCredentials")
            /\ SessionUnchanged
    /\ DbUnchanged
    /\ CountsUnchanged
    /\ UNCHANGED <<uploads, remedies_data>>

-----------------------------------------------------------------------------
(* signup_form: the Sign Up form is submitted.                               *)

SignupFaults == {"none", "db.create_user"}

\* PasswordsMatch with the comparison left out
PasswordsMatch_Always(password, confirm_password) == TRUE

\* the check of line 65
PasswordsMatch(password, confirm_password) == password = confirm_password

signup_form(username, email, password, confirm_password, full_name, fault) ==
    /\ user = None
    /\ IF ~PasswordsMatch(password, confirm_password)
       THEN /\ last' = Message("signup", "Passwords do not match!",
                               "ValidationError")
            /\ UNCHANGED <<users, page>>
       ELSE IF fault = "db.create_user"
       THEN \* except Exception: st.error
            /\ last' = Message("signup", "Error creating account",
                               "PersistenceError")
            /\ UNCHANGED <<users, page>>
       ELSE IF UsernameTaken(username)
       THEN /\ last' = Message("signup", "Error creating account",
                               "DuplicateUsername")
            /\ UNCHANGED <<users, page>>
       ELSE /\ users' = create_user(username, email, password, full_name)
            /\ page' = "login"
            /\ last' = Message("signup",
                               "Account created successfully! Please login.", "")
    /\ UNCHANGED <<user, predictions, uploads, remedies_data>>
    /\ CountsUnchanged

-----------------------------------------------------------------------------
(* home_page: the Predict button is clicked on an uploaded file.  The calls  *)
(* of lines 114-129 are straight-line code with no try around them: the      *)
(* first one that raises ends the handler, and what ran before it stays.     *)

PredictSteps ==
    <<"save_uploaded_file", "preprocess_image", "model.predict",
      "db.save_prediction">>

PredictFaults == {"none"} \cup {PredictSteps[i] : i \in DOMAIN PredictSteps}

StepIndex(step) == CHOOSE i \in DOMAIN PredictSteps : PredictSteps[i] = step

\* the step is reached: no earlier step raised
Called(step, fault) ==
    fault = "none" \/ StepIndex(step) <= StepIndex(fault)

\* Succeeds with the statements after a raising call still run
Succeeds_DespiteRaise(step, fault) ==
    fault = "none" \/ StepIndex(step) <= StepIndex(fault)

\* the step is reached and returns
Succeeds(step, fault) ==
    fault = "none" \/ StepIndex(step) < StepIndex(fault)

ErrorOf(fault) ==
    CASE fault = "save_uploaded_file" -> "StorageError"
      [] fault = "preprocess_image"   -> "DecodeError"
      [] fault = "model.predict"      -> "InferenceError"
      [] OTHER                        -> "PersistenceError"

\* RecordedRow with prediction[0][0] as the confidence
RecordedRow_FirstScore(uploaded_file, prediction) ==
    PredictionRow(user, PathOf(uploaded_file),
                  PredictedClass(prediction), prediction[1])

\* RecordedRow with the id of the first row of users as the user id
RecordedRow_FirstUser(uploaded_file, prediction) ==
    PredictionRow(1, PathOf(uploaded_file),
                  PredictedClass(prediction), Confidence(prediction))

\* the arguments of db.save_prediction at lines 124-129
RecordedRow(uploaded_file, prediction) ==
    PredictionRow(user, PathOf(uploaded_file),
                  PredictedClass(prediction), Confidence(prediction))

home_page(uploaded_file, prediction, fault) ==
    /\ user # None
    /\ page = "home"
    /\ classified < MaxPredictions
    /\ uploads' = IF Succeeds("save_uploaded_file", fault)
                  THEN uploads \cup {PathOf(uploaded_file)}
                  ELSE uploads
    /\ classified' = IF Succeeds("model.predict", fault)
                     THEN classified + 1
                     ELSE classified
    /\ save_calls' = IF Called("db.save_prediction", fault)
                     THEN save_calls + 1
                     ELSE save_calls
    /\ save_failed' = IF fault = "db.save_prediction"
                      THEN save_failed + 1
                      ELSE save_failed
    /\ predictions' = IF Succeeds("db.save_prediction", fault)
                      THEN Append(predictions,
                                  RecordedRow(uploaded_file, prediction))
                      ELSE predictions
    /\ last' = IF fault = "none"
               THEN Rendered("predict", "Prediction Results", "",
                             <<RecordedRow(uploaded_file, prediction)>>,
                             RemedyLookup(remedies_data,
                                          PredictedClass(prediction)),
                             prediction)
               ELSE Message("predict", Uncaught, ErrorOf(fault))
    /\ SessionUnchanged
    /\ UNCHANGED <<users, remedies_data>>

-----------------------------------------------------------------------------
(* history_page: the history page is rendered.  fig is what                  *)
(* plot_prediction_history returned: a figure, or nothing.                   *)

HistoryFaults == {"none", "db.get_user_predictions"}

\* history_page without the return of line 161
history_page_NoReturn(fig, fault) ==
    /\ user # None
    /\ page = "history"
    /\ last' = IF fault = "db.get_user_predictions"
               THEN Message("history", Uncaught, "PersistenceError")
               ELSE Rendered("history", "Prediction History", "",
                             get_user_predictions(user), "",
                             IF fig THEN get_user_predictions(user) ELSE <<>>)
    /\ SessionUnchanged
    /\ DbUnchanged
    /\ CountsUnchanged
    /\ UNCHANGED <<uploads, remedies_data>>

history_page(fig, fault) ==
    /\ user # None
    /\ page = "history"
    /\ last' = IF fault = "db.get_user_predictions"
               THEN Message("history", Uncaught, "PersistenceError")
               ELSE IF get_user_predictions(user) = <<>>
               THEN Message("history", "No prediction history available.", "")
               ELSE Rendered("history", "Prediction History", "",
                             get_user_predictions(user), "",
                             IF fig THEN get_user_predictions(user) ELSE <<>>)
    /\ SessionUnchanged
    /\ DbUnchanged
    /\ CountsUnchanged
    /\ UNCHANGED <<uploads, remedies_data>>

-----------------------------------------------------------------------------
(* profile_page: the profile form is submitted.                              *)

ProfileFaults == {"none", "db.get_user_by_id", "db.update_user_profile"}

profile_page(email, full_name, fault) ==
    /\ user # None
    /\ page = "profile"
    /\ IF fault = "db.get_user_by_id"
       THEN \* line 185 is outside the try
            /\ last' = Message("profile", Uncaught, "PersistenceError")
            /\ UNCHANGED users
       ELSE IF fault = "db.update_user_profile"
       THEN /\ last' = Message("profile", "Error updating profile",
                               "PersistenceError")
            /\ UNCHANGED users
       ELSE /\ users' = update_user_profile(user, full_name, email)
            /\ last' = Message("profile", "Profile updated successfully!", "")
    /\ SessionUnchanged
    /\ CountsUnchanged
    /\ UNCHANGED <<predictions, uploads, remedies_data>>

-----------------------------------------------------------------------------
(* main: the sidebar, rendered only while the session user is truthy.        *)

SidebarPages == {"home", "history", "profile"}

sidebar(target) ==
    /\ user # None
    /\ page' = target
    /\ last' = Message("navigate", "", "")
    /\ UNCHANGED <<user, uploads, remedies_data>>
    /\ DbUnchanged
    /\ CountsUnchanged

\* logout without the assignment of line 230
logout_KeepsPage ==
    /\ user # None
    /\ user' = None
    /\ page' = page
    /\ last' = Message("logout", "", "")
    /\ UNCHANGED <<uploads, remedies_data>>
    /\ DbUnchanged
    /\ CountsUnchanged

logout ==
    /\ user # None
    /\ user' = None
    /\ page' = "login"
    /\ last' = Message("logout", "", "")
    /\ UNCHANGED <<uploads, remedies_data>>
    /\ DbUnchanged
    /\ CountsUnchanged

-----------------------------------------------------------------------------

Login ==
    \E username \in Usernames, password \in Passwords, fault \in LoginFaults :
        login_form(username, password, fault)

Signup ==
    \E username \in Usernames, email \in Emails, password \in Passwords,
       confirm_password \in Passwords, full_name \in FullNames,
       fault \in SignupFaults :
        signup_form(username, email, password, confirm_password, full_name,
                    fault)

Predict ==
    \E uploaded_file \in Files, prediction \in SampleOutputs, fault \in PredictFaults :
        home_page(uploaded_file, prediction, fault)

History ==
    \E fig \in BOOLEAN, fault \in HistoryFaults : history_page(fig, fault)

Profile ==
    \E email \in Emails, full_name \in FullNames, fault \in ProfileFaults :
        profile_page(email, full_name, fault)

Navigate == \E target \in SidebarPages : sidebar(target)

Logout == logout

Next ==
    \/ Login
    \/ Signup
    \/ Predict
    \/ History
    \/ Profile
    \/ Navigate
    \/ Logout

Spec == Init /\ [][Next]_vars

-----------------------------------------------------------------------------
(* The classification of home_page on every output of the classifier: one   *)
(* user signs up, logs in and clicks Predict.                                *)

SignupOne == signup_form("alice", "e1", "p1", "p1", "n1", "none")

LoginOne == login_form("alice", "p1", "none")

PredictAny == \E prediction \in Vectors : home_page("a.png", prediction, "none")

NextClassify ==
    \/ SignupOne
    \/ LoginOne
    \/ PredictAny

SpecClassify == Init /\ [][NextClassify]_vars

-----------------------------------------------------------------------------
(* The remedy lookup of home_page on every table remedies.json can hold.     *)

InitRemedy == InitWith(RemedyTables)

PredictCertain ==
    \E prediction \in OneHot : home_page("a.png", prediction, "none")

NextRemedy ==
    \/ SignupOne
    \/ LoginOne
    \/ PredictCertain

SpecRemedy == InitRemedy /\ [][NextRemedy]_vars

-----------------------------------------------------------------------------
(* Properties *)

\* C1: a sign-up whose password and confirmation differ shows the validation
\* error and creates no user: the users table, the session user and the
\* session page are the same after the submission as before it.
C1_MismatchCreatesNothing ==
    [][\A username \in Usernames, email \in Emails, password \in Passwords,
          confirm_password \in Passwords, full_name \in FullNames,
          fault \in SignupFaults :
            ( /\ password # confirm_password
              /\ signup_form(username, email, password, confirm_password,
                             full_name, fault) )
            => /\ users' = users
               /\ user' = user
               /\ page' = page
               /\ last'.msg = "Passwords do not match!"
               /\ last'.error = "ValidationError"]_vars

\* a mismatched sign-up was rejected while the table already held a user
C1_Witness ==
    /\ last.op = "signup"
    /\ last.msg = "Passwords do not match!"
    /\ users # <<>>

\* C2 as stated: the number of records stored equals the number of completed
\* classifications.
C2_RecordsEqualClassifications == Len(predictions) = classified

\* C2 amended: db.save_prediction is called once per completed classification,
\* and the records stored are those calls that did not raise; a Predict run
\* that fails before the write leaves the table as it was.
C2_RecordsEqualSuccessfulWrites ==
    /\ save_calls = classified
    /\ Len(predictions) = save_calls - save_failed
    /\ Len(predictions) <= classified

\* one record write succeeded and one raised
C2_Witness ==
    /\ classified = 2
    /\ save_failed = 1
    /\ Len(predictions) = 1

\* C3: no failure leaves a page handler uncaught.
C3_NoUncaughtFailure == last.msg # Uncaught

\* C4: the predicted class index is a valid index of class_names, every
\* recorded class is one of class_names, and the recorded confidence is the
\* score at that index, the largest of the vector, and lies in [0,1]
\* (0..MaxScore in units of 1/MaxScore).
C4_ClassAndConfidence ==
    /\ \A i \in DOMAIN predictions :
          /\ predictions[i].prediction_class \in ClassSet
          /\ predictions[i].confidence \in 0..MaxScore
    /\ (last.op = "predict" /\ last.msg = "Prediction Results") =>
          \E k \in 1..NumClasses :
              /\ k = argmax(last.chart)
              /\ last.shown[1].prediction_class = class_names[k]
              /\ last.shown[1].confidence = last.chart[k]
              /\ \A j \in 1..NumClasses : last.chart[j] <= last.chart[k]
              /\ predictions[Len(predictions)].prediction_class
                     = class_names[k]
              /\ predictions[Len(predictions)].confidence = last.chart[k]

\* a vector with two different scores and a tie for the largest was classified
C4_Witness ==
    /\ last.op = "predict"
    /\ last.msg = "Prediction Results"
    /\ \E i, j \in 1..NumClasses :
          /\ i < j
          /\ last.chart[i] = last.chart[j]
          /\ \A k \in 1..NumClasses : last.chart[k] <= last.chart[i]
          /\ \E k \in 1..NumClasses : k < i /\ last.chart[k] < last.chart[i]
    /\ last.chart[NumClasses] = 0
    /\ last.shown[1].confidence < MaxScore

\* the records of the table that carry this user id, in table order
RecordsOf(user_id) ==
    LET RECURSIVE Pick(_)
        Pick(n) ==
            IF n = 0 THEN <<>>
            ELSE IF predictions[n].user_id = user_id
                 THEN Append(Pick(n - 1), predictions[n])
                 ELSE Pick(n - 1)
    IN  Pick(Len(predictions))

\* C5: after a record write for the session user succeeds, the history
\* listing of that user ends with a record whose user id, image path, class
\* and confidence are the ones written; the listing of a user holds the
\* records written for that user and no other, and is what history_page
\* shows; no step changes or removes a record of the table.
C5_WrittenRecordIsListed ==
    /\ [](\A user_id \in DOMAIN users :
              get_user_predictions(user_id) = RecordsOf(user_id))
    /\ []((last.op = "history" /\ last.msg = "Prediction History") =>
              /\ last.shown = RecordsOf(user)
              /\ \A i \in DOMAIN last.shown : last.shown[i].user_id = user)
    /\ [][\A uploaded_file \in Files, prediction \in SampleOutputs :
             home_page(uploaded_file, prediction, "none") =>
                 LET listing == get_user_predictions(user)' IN
                 /\ listing # <<>>
                 /\ Len(listing) = Len(get_user_predictions(user)) + 1
                 /\ listing[Len(listing)].user_id = user
                 /\ listing[Len(listing)].image_path = PathOf(uploaded_file)
                 /\ listing[Len(listing)].prediction_class
                        = class_names[CHOOSE k \in 1..NumClasses :
                                          prediction[k] = MaxScore]
                 /\ listing[Len(listing)].confidence = MaxScore]_vars
    /\ [][/\ Len(predictions') >= Len(predictions)
          /\ \A i \in DOMAIN predictions : predictions'[i] = predictions[i]]_vars

\* the history page lists the one record of the session user while the table
\* also holds a record of another user
C5_Witness ==
    /\ last.op = "history"
    /\ last.msg = "Prediction History"
    /\ Len(last.shown) = 1
    /\ Len(predictions) = 2
    /\ last.shown[1] = predictions[2]

\* C6: a login with the username and password of a row sets the session user
\* to that row and the page to 'home'; a login with the username of a row and
\* another password shows the invalid-credentials error and leaves the
\* session user None and the page as it was; a sign-up with a username in use
\* shows the duplicate-username error, creates nothing and leaves the page.
C6_Authentication ==
    [][\A username \in Usernames, password \in Passwords :
        /\ ( /\ \E i \in DOMAIN users : /\ users[i].username = username
                                        /\ users[i].password = password
             /\ login_form(username, password, "none") )
           => /\ user' \in DOMAIN users
              /\ users[user'].username = username
              /\ users[user'].password = password
              /\ page' = "home"
              /\ last'.msg = "Login successful!"
        /\ ( /\ \E i \in DOMAIN users : /\ users[i].username = username
                                        /\ users[i].password # password
             /\ login_form(username, password, "none") )
           => /\ user' = None
              /\ page' = page
              /\ last'.msg = "Invalid username or password"
              /\ last'.error = "InvalidCredentials"
        /\ \A email \in Emails, full_name \in FullNames :
             ( /\ \E i \in DOMAIN users : users[i].username = username
               /\ signup_form(username, email, password, password, full_name,
                              "none") )
             => /\ users' = users
                /\ page' = page
                /\ user' = user
                /\ last'.msg = "Error creating account"
                /\ last'.error = "DuplicateUsername"]_vars

\* a login with a wrong password was refused while two users exist
C6_Witness ==
    /\ last.op = "login"
    /\ last.error = "InvalidCredentials"
    /\ Len(users) = 2
    /\ user = None

\* C7: the remedy lookup gives the text of the table for every label of the
\* table and "No remedy available" for every other label, the remedy shown
\* with a prediction is that lookup on the predicted class, and no step
\* changes the table.
C7_RemedyLookup ==
    /\ [](\A label \in RemedyLabels :
             /\ label \in DOMAIN remedies_data =>
                    RemedyLookup(remedies_data, label) = remedies_data[label]
             /\ label \notin DOMAIN remedies_data =>
                    RemedyLookup(remedies_data, label) = "No remedy available")
    /\ []((last.op = "predict" /\ last.msg = "Prediction Results") =>
             last.remedy =
                 IF last.shown[1].prediction_class \in DOMAIN remedies_data
                 THEN remedies_data[last.shown[1].prediction_class]
                 ELSE "No remedy available")
    /\ [][remedies_data' = remedies_data]_vars

\* a prediction of a class that a non-empty table lacks showed the sentinel
C7_Witness ==
    /\ last.op = "predict"
    /\ last.msg = "Prediction Results"
    /\ last.remedy = "No remedy available"
    /\ DOMAIN remedies_data # {}
    /\ "Unknown" \in DOMAIN remedies_data

\* C8: for a session user with no record, history_page shows the no-history
\* message, renders no record and no chart, raises nothing and changes no
\* stored state.
C8_EmptyHistory ==
    [][\A fig \in BOOLEAN :
          ( /\ history_page(fig, "none")
            /\ \A i \in DOMAIN predictions : predictions[i].user_id # user )
          => /\ last'.msg = "No prediction history available."
             /\ last'.error = ""
             /\ last'.shown = <<>>
             /\ last'.chart = <<>>
             /\ UNCHANGED <<user, page, users, predictions, uploads,
                            remedies_data>>]_vars

\* the history page of a user without records was shown while the table
\* holds records of another user
C8_Witness ==
    /\ last.op = "history"
    /\ last.msg = "No prediction history available."
    /\ predictions # <<>>

\* C9: the home, history and profile handlers run only while the session user
\* is not None; a step that writes a record appends one record that carries
\* the id of the session user, who stays logged in; a profile update changes
\* the row of the session user only; while the session user is None no record
\* is written, and the session user becomes not None only by a successful
\* login.
C9_AuthenticatedOnly ==
    [][/\ (last' # last /\ last'.op \in {"predict", "history", "profile"})
            => (user # None /\ user' = user /\ user \in DOMAIN users)
       /\ predictions' # predictions
            => /\ user # None
               /\ user' = user
               /\ Len(predictions') = Len(predictions) + 1
               /\ predictions'[Len(predictions')].user_id = user
               /\ user \in DOMAIN users
       /\ (users' # users /\ Len(users') = Len(users))
            => /\ user # None
               /\ \A i \in DOMAIN users : i # user => users'[i] = users[i]
       /\ user = None => predictions' = predictions
       /\ (user = None /\ user' # None)
            => (last'.op = "login" /\ last'.msg = "Login successful!")]_vars

\* the second user wrote a record after the first user logged out
C9_Witness ==
    /\ last.op = "predict"
    /\ last.msg = "Prediction Results"
    /\ user = 2
    /\ Len(predictions) = 2
    /\ predictions[1].user_id = 1
    /\ predictions[2].user_id = 2

\* C10: while the session user is not None the page is 'home', 'history' or
\* 'profile'; while it is None the page is 'login'.
C10_PageMatchesSession ==
    /\ user # None => page \in {"home", "history", "profile"}
    /\ user = None => page = "login"

\* a user has logged out
C10_Witness ==
    /\ last.op = "logout"
    /\ user = None
    /\ page = "login"
    /\ users # <<>>

=============================================================================
